---- MODULE Spec2Model ----
(***************************************************************************)
(* Secure aggregation (Bonawitz et al.) as implemented in src/client.js,   *)
(* src/server.js, src/helper.js and driven by src/run.js.                  *)
(*                                                                         *)
(* Clients are named by their position 1..N in the array handed to the     *)
(* Server; the random UUID of a client only matters through the string     *)
(* order of the UUIDs, which is the field id of a client.  Objects keyed by *)
(* client id are functions whose domain is a set of positions; JavaScript  *)
(* iterates such an object in insertion order, which is position order.    *)
(* A field that JavaScript leaves undefined is None, a defined one Some(v). *)
(***************************************************************************)
EXTENDS Integers, Sequences, FiniteSets

\* ---------------------------------------------------------------- bounds
MaxN == 4

MaxT == 3

MaxRnd == 1

MaxDrops == 2

\* ------------------------------------------------------- optional values
None == <<>>

Some(v) == <<v>>

\* ------------------------------------------- integers wider than 31 bits
\* A number n is the pair <<h, l>> with n = h * 2^16 + l and 0 <= l < 2^16.
Half == 2 ^ 16

Num(n) == <<n \div Half, n % Half>>

Zero == <<0, 0>>

NumAdd(a, b) == <<a[1] + b[1] + ((a[2] + b[2]) \div Half), (a[2] + b[2]) % Half>>

NumNeg(a) == IF a[2] = 0 THEN <<0 - a[1], 0>> ELSE <<0 - a[1] - 1, Half - a[2]>>

NumSub(a, b) == NumAdd(a, NumNeg(b))

\* A store that saturates at the ends of the signed 32-bit range.
SetInt32Saturating(a) ==
    IF a[1] >= Half \div 2 THEN <<(Half \div 2) - 1, Half - 1>>
    ELSE IF a[1] < 0 - (Half \div 2) THEN <<0 - (Half \div 2), 0>>
    ELSE a

\* DataView.setInt32 followed by getInt32: the value modulo 2^32, read back
\* as a signed 32-bit integer.
SetInt32(a) ==
    LET h == a[1] % Half
    IN  <<IF h >= Half \div 2 THEN h - Half ELSE h, a[2]>>

IsInt32(a) == a[1] >= 0 - (Half \div 2) /\ a[1] < Half \div 2

\* The sum of f[x] over the finite set S of integers, in increasing x.
RECURSIVE NumSum(_, _)
NumSum(f, S) ==
    IF S = {} THEN Zero
    ELSE LET x == CHOOSE y \in S : \A z \in S : y <= z
         IN  NumAdd(f[x], NumSum(f, S \ {x}))

\* The elements of a finite set of integers as an increasing sequence.
RECURSIVE SetToSeq(_)
SetToSeq(S) ==
    IF S = {} THEN <<>>
    ELSE LET x == CHOOSE y \in S : \A z \in S : y <= z
         IN  <<x>> \o SetToSeq(S \ {x})

Range(s) == {s[x] : x \in DOMAIN s}

\* Array.prototype.filter.
RECURSIVE Filter(_, _)
Filter(s, keep) ==
    IF s = <<>> THEN <<>>
    ELSE (IF Head(s) \in keep THEN <<Head(s)>> ELSE <<>>) \o Filter(Tail(s), keep)

\* ------------------------------------------------------------- variables
VARIABLES
    nbClient,   \* run.js: number of clients of the run
    threshold,  \* run.js: the Shamir threshold t handed to every party
    rnd,        \* the outcome of every random draw of the run (UUID order,
                \* secret values, keys, seeds, Shamir coefficients, IVs)
    dropAt,     \* run.js dropoutArrayIndex: the drop point of each client, 0 = never
    pc,         \* the driver's position in the run
    clients,    \* the Client objects, by position
    server,     \* the Server object
    phase,      \* how many rounds the aggregator has completed
    err,        \* the exception that ended the run, "" while there is none
    out,        \* what the driver printed: the secure and the plain mean
    call        \* the last call made on a client directly, beside the driver's

vars == <<nbClient, threshold, rnd, dropAt, pc, clients, server, phase, err, out, call>>

Positions == 1 .. nbClient

\* ------------------------------------------------------------ randomness
\* randomUUID: the UUIDs are distinct; Id(i) is the rank of client i's UUID in
\* string order, a rotation of the positions.
Id(i) == ((i - 1 + rnd) % nbClient) + 1

\* subtle.generateKey: the private scalars drawn for client i.
SeedKeyDraw(i) == 1 + ((rnd * 3 + i * 7) % 10)

EncryptionKeyDraw(i) == 1 + ((rnd * 5 + i * 3) % 10)

\* gen.create()(2 ** 32): the self mask seed drawn by client i.
SelfMaskSeedDraw(i) == (rnd * 17 + i * 29) % 100

\* randomBytes inside split: the coefficient of x^d of the polynomial that
\* shares byte b of secret number which (1 = key, 2 = seed) of client i.
CoefficientDraw(i, which, b, d) == (rnd + i * 3 + which * 5 + b * 7 + d * 2) % 11

\* getRandomValues(new Uint8Array(16)): the IV of the ciphertext i -> j.
\* An IV that is drawn anew in a second run instead of being fixed with the
\* other random choices.
IvDrawFresh(i, j) == (rnd * 11 + i * 4 + j + (IF call.op = "" THEN 0 ELSE 1)) % 256

IvDraw(i, j) == (rnd * 11 + i * 4 + j) % 256

\* ---------------------------------------------------------------- helper
\* Helper.ecdhKeyParams: the group of the key pairs, here the multiplicative
\* group modulo a prime with a generator of full order.
GroupP == 11

Generator == 2

RECURSIVE Pow(_, _)
Pow(b, e) == IF e = 0 THEN 1 ELSE (b * Pow(b, e - 1)) % GroupP

PublicKey(privateKey) == Pow(Generator, privateKey)

\* A derivation that ignores the other party's public key.
ECDHOneSided(privateKey, publicKey) == Pow(Generator, privateKey)

\* subtle.deriveBits / deriveKey with ECDH: the shared group element.
ECDH(privateKey, publicKey) == Pow(publicKey, privateKey)

deriveSharedNumber(privateKey, publicKey) ==
    LET s == ECDH(privateKey, publicKey)
    IN  <<(s * 7) % 256, (s * 113) % 256, (s * 59) % 256>>

\* new DataView(buffer, 0).getInt16(offset): two bytes, big endian, signed.
getInt16(buffer, offset) ==
    LET u == buffer[offset + 1] * 256 + buffer[offset + 2]
    IN  IF u >= 32768 THEN u - 65536 ELSE u

PairwiseSeed(privateKey, publicKey) == getInt16(deriveSharedNumber(privateKey, publicKey), 1)

\* gen.create(seed)(2 ** 32): output number n (from 0) of the generator
\* seeded with seed, an unsigned 32-bit number.
PRNG(seed, n) ==
    <<(seed * 40503 + n * 977 + 12345) % Half, (seed * 25173 + n * 31 + 13849) % Half>>

deriveEncryptionKey(privateKey, publicKey) == ECDH(privateKey, publicKey)

AESGCMEncrypt(key, message, iv) ==
    [ciphertext |-> [key |-> key, iv |-> iv, message |-> message], iv |-> iv]

\* None stands for the exception of subtle.decrypt (tag mismatch).
AESGCMDecrypt(key, ciphertext, iv) ==
    IF ciphertext.key = key /\ ciphertext.iv = iv THEN Some(ciphertext.message) ELSE None

\* ---------------------------------------------------------------- shamir
\* The field of the sharing (one field element per byte of the secret).
FieldP == 11

\* String(number) / TextEncoder.encode: the decimal digits of n >= 0.
RECURSIVE Digits(_)
Digits(n) == IF n < 10 THEN <<n>> ELSE Digits(n \div 10) \o <<n % 10>>

\* TextDecoder.decode / parseInt (and JSON.parse + importKey for a key).
RECURSIVE ParseInt(_)
ParseInt(ds) ==
    IF Len(ds) = 1 THEN ds[1]
    ELSE ParseInt(SubSeq(ds, 1, Len(ds) - 1)) * 10 + ds[Len(ds)]

RECURSIVE PolyEval(_, _, _, _, _, _)
PolyEval(i, which, b, d, x, acc) ==
    IF d = 0 THEN acc
    ELSE PolyEval(i, which, b, d - 1, x, (acc * x + CoefficientDraw(i, which, b, d)) % FieldP)

\* split(randomBytes, n, k, secret): the parts 1..n, each one value per byte;
\* part x of byte b is p_b(x) with p_b(0) = secret[b] and degree k - 1.
split(i, which, n, k, secret) ==
    [x \in 1 .. n |->
        [b \in 1 .. Len(secret) |->
            (PolyEval(i, which, b, k - 1, x, 0) * x + secret[b]) % FieldP]]

\* The precondition of split: it throws for any other n, k.
splitAccepts(n, k) == k > 1 /\ n >= k /\ n <= 255

FieldInv(a) == CHOOSE b \in 1 .. FieldP - 1 : (a * b) % FieldP = 1

RECURSIVE Basis(_, _)
Basis(x, others) ==
    IF others = {} THEN 1
    ELSE LET m == CHOOSE y \in others : TRUE
         IN  (m * FieldInv((m - x) % FieldP) * Basis(x, others \ {m})) % FieldP

RECURSIVE Interpolate(_, _, _)
Interpolate(parts, b, todo) ==
    IF todo = {} THEN 0
    ELSE LET x == CHOOSE y \in todo : TRUE
         IN  (parts[x][b] * Basis(x, DOMAIN parts \ {x})
              + Interpolate(parts, b, todo \ {x})) % FieldP

\* join(parts): parts maps share index to share; interpolation at 0 through
\* every part given, byte by byte.
join(parts) ==
    LET x0 == CHOOSE y \in DOMAIN parts : TRUE
    IN  [b \in 1 .. Len(parts[x0]) |-> Interpolate(parts, b, DOMAIN parts)]

\* ---------------------------------------------------------------- client
\* The secret values of run.js (runSimple): a value is its sign, the digits
\* up to the fourth decimal (m = |value| * 10^4, truncated) and the fifth
\* decimal d5.
SecretTable ==
    << [neg |-> FALSE, m |-> 1310702132, d5 |-> 1],   \* 131070.213213
       [neg |-> FALSE, m |-> 31415, d5 |-> 9],        \* 3.14159265
       [neg |-> TRUE, m |-> 420000, d5 |-> 0],        \* -42
       [neg |-> FALSE, m |-> 60000, d5 |-> 0] >>      \* 6

\* gen.create().floatBetween(...): the secret value drawn for client i.
SecretOf(i) == SecretTable[((i * rnd + rnd) % Len(SecretTable)) + 1]

\* The secret values handed to the conversion on its own: up to MaxSecret
\* ten-thousandths, of either sign, with a fifth decimal below or above 5.
MaxSecret == 60

SecretChoices ==
    [neg : BOOLEAN, m : 0 .. MaxSecret, d5 : {0, 4, 6}]

\* 10**4, also the base in which the long integers below are written.
Scale == 10000

\* A long natural number: Limbs digits in base Scale, lowest first, written
\* out as a tuple.
Limbs == 6

Big(k) == <<k % Scale, (k \div Scale) % Scale, k \div (Scale * Scale), 0, 0, 0>>

BigDouble(x) ==
    LET digit(i) ==
            (2 * x[i] + (IF i > 1 /\ x[i - 1] >= Scale \div 2 THEN 1 ELSE 0)) % Scale
    IN  <<digit(1), digit(2), digit(3), digit(4), digit(5), digit(6)>>

\* The half of x, rounded down.
BigHalve(x) ==
    LET digit(i) == (x[i] + (IF i < Limbs /\ x[i + 1] % 2 = 1 THEN Scale ELSE 0)) \div 2
    IN  <<digit(1), digit(2), digit(3), digit(4), digit(5), digit(6)>>

BigLess(x, y) ==
    \E i \in 1 .. Limbs : x[i] < y[i] /\ \A j \in (i + 1) .. Limbs : x[j] = y[j]

BigInc(x) ==
    LET digit(i) ==
            IF \A j \in 1 .. (i - 1) : x[j] = Scale - 1 THEN (x[i] + 1) % Scale ELSE x[i]
    IN  <<digit(1), digit(2), digit(3), digit(4), digit(5), digit(6)>>

\* x * Scale and x \div Scale.
BigShift(x) == <<0, x[1], x[2], x[3], x[4], x[5]>>

BigDrop(x) == <<x[2], x[3], x[4], x[5], x[6], 0>>

\* x * 2^n.
RECURSIVE BigDoubleTimes(_, _)
BigDoubleTimes(x, n) ==
    IF n <= 0 \/ x = Big(0) THEN x ELSE BigDoubleTimes(BigDouble(x), n - 1)

\* The significand of a double has 53 bits.
TwoTo52 == BigDoubleTimes(Big(1), 52)

TwoTo53 == BigDoubleTimes(Big(1), 53)

\* secretValue.toFixed(4): the decimal string, as the number n of
\* ten-thousandths it denotes (sign apart).
toFixed(secretValue) == secretValue.m + (IF secretValue.d5 >= 5 THEN 1 ELSE 0)

\* x * 2^e for the least e that brings it to 2^52 * Scale or above.
RECURSIVE ScaledUp(_, _)
ScaledUp(x, e) ==
    IF BigLess(x, BigShift(TwoTo52)) THEN ScaledUp(BigDouble(x), e + 1)
    ELSE [x |-> x, e |-> e]

\* The string n/10^4 converted to a Number: the double nearest to it, ties
\* to even, as significand sig and exponent e (value sig / 2^e), for n > 0.
StringToNumber(n) ==
    LET up == ScaledUp(Big(n), 0)
        q == BigDrop(up.x)
        r == up.x[1]
    IN  [sig |-> IF r > Scale \div 2 \/ (r = Scale \div 2 /\ q[1] % 2 = 1)
                 THEN BigInc(q) ELSE q,
         e |-> up.e]

\* y halved until it has at most 53 bits, the bits dropped being rounded to
\* nearest, ties to even: s counts the halvings, guard is the last bit
\* dropped and sticky says whether a 1 was dropped before it.
RECURSIVE RoundedTo53(_, _, _, _)
RoundedTo53(y, s, guard, sticky) ==
    IF BigLess(y, TwoTo53)
    THEN [sig |-> IF guard = 1 /\ (sticky \/ y[1] % 2 = 1) THEN BigInc(y) ELSE y,
          s |-> s]
    ELSE RoundedTo53(BigHalve(y), s + 1, y[1] % 2, sticky \/ guard = 1)

\* y \div 2^n.
RECURSIVE BigHalveTimes(_, _)
BigHalveTimes(y, n) ==
    IF n <= 0 \/ y = Big(0) THEN y ELSE BigHalveTimes(BigHalve(y), n - 1)

\* Number.parseInt(x * (10**4)) for the double x = d.sig / 2^d.e: the
\* product is rounded to a double, and parseInt keeps the digits before the
\* decimal point of its shortest decimal form, that is its integer part.
TimesScaleParsed(d) ==
    LET p == RoundedTo53(BigShift(d.sig), 0, 0, FALSE)
        t == BigHalveTimes(p.sig, d.e - p.s)
    IN  t[1] + Scale * t[2] + Scale * Scale * t[3]

\* Number.parseInt(secretValue.toFixed(4) * (10**4)) as an integer.
EncodeSecret(secretValue) ==
    LET n == toFixed(secretValue)
        k == IF n = 0 THEN 0 ELSE TimesScaleParsed(StringToNumber(n))
    IN  IF secretValue.neg THEN 0 - k ELSE k

\* The conversion of the secret values of the runs, worked out once.
EncodedSecrets ==
    << EncodeSecret(SecretTable[1]), EncodeSecret(SecretTable[2]),
       EncodeSecret(SecretTable[3]), EncodeSecret(SecretTable[4]) >>

\* const secretValueRounded = Number.parseInt(this.secretValue.toFixed(4) * (10**4))
secretValueRounded(secretValue) ==
    Num(IF \E k \in DOMAIN SecretTable : SecretTable[k] = secretValue
        THEN EncodedSecrets[CHOOSE k \in DOMAIN SecretTable : SecretTable[k] = secretValue]
        ELSE EncodeSecret(secretValue))

\* new Client(id, secretValue, nbClients, threshold)
NewClient(i) ==
    [ id |-> Id(i), secretValue |-> SecretOf(i), nbClients |-> nbClient,
      threshold |-> threshold, isUp |-> TRUE,
      seedPrivateKey |-> None, seedPublicKey |-> None,
      encryptionPrivateKey |-> None, encryptionPublicKey |-> None,
      clientList |-> None, selfMaskSeed |-> None,
      secretKeyShamir |-> None, selfMaskSeedShamir |-> None,
      ownPrivateKeyShare |-> None, ownSelfMaskSeedShare |-> None, ownIndex |-> None,
      ciphertexts |-> None, hasClientListU2 |-> FALSE, maskedGradient |-> None,
      clientIDsU2 |-> None, clientIDsU3 |-> None, IDsinU2NotInU3 |-> None,
      splits |-> None ]

\* What a client method gives back: the client after it and the exception it
\* threw ("" for none).
Ok(c) == [c |-> c, e |-> ""]

Throw(c, e) == [c |-> c, e |-> e]

\* Client.generateKeyPairs
generateKeyPairs(c, i) ==
    [c EXCEPT !.seedPrivateKey = Some(SeedKeyDraw(i)),
              !.seedPublicKey = Some(PublicKey(SeedKeyDraw(i))),
              !.encryptionPrivateKey = Some(EncryptionKeyDraw(i)),
              !.encryptionPublicKey = Some(PublicKey(EncryptionKeyDraw(i)))]

\* Client.round0
clientRound0(c, i) == Ok(generateKeyPairs(c, i))

\* The property length of a value: the number of elements of an array,
\* undefined for the object the aggregator keys by client id.
LengthOf(v) == IF v.isArray THEN Some(Len(v.items)) ELSE None

\* a < b in JavaScript where a may be undefined: undefined < b is false.
JsLess(a, b) == a # None /\ a[1] < b

\* Client.receiveClients: clientList is the table of the aggregator itself,
\* by reference.  The message of the first throw reads this.clientList.length
\* before this.clientList is set, hence a TypeError where it is undefined.
receiveClients(c, clientList) ==
    IF JsLess(LengthOf(clientList), c.threshold)
    THEN Throw(c, IF c.clientList = None THEN "TypeError" ELSE "TooFewClients")
    ELSE IF /\ clientList.isArray
            /\ \E x, y \in DOMAIN clientList.items : x < y
         THEN Throw(c, "KeyCollision")   \* undefined == undefined for any two entries
         ELSE Ok([c EXCEPT !.clientList = Some([ofServer |-> TRUE, peers |-> <<>>])])

\* Client.computePairwiseEncryption: list is the table this.clientList refers
\* to (the aggregator's), position -> ClientForServer.
computePairwiseEncryption(c, list) ==
    [c EXCEPT !.clientList = Some([ofServer |-> FALSE, peers |->
        [j \in {x \in DOMAIN list : list[x].id # c.id} |->
            [ id |-> list[j].id,
              seedPublicKey |-> list[j].seedPublicKey[1],
              seed |-> PairwiseSeed(c.seedPrivateKey[1], list[j].seedPublicKey[1]),
              AESKey |-> deriveEncryptionKey(c.encryptionPrivateKey[1],
                                             list[j].encryptionPublicKey[1]),
              drawn |-> 0,
              ciphertext |-> None ]]])]

\* A client whose share index does not advance with its peers.
RankInFirst(j, S) == 1

\* The rank (from 1) of j in the iteration over the keys S.
RankIn(j, S) == Cardinality({x \in S : x <= j})

\* Client.generateCiphertexts: index counts the entries of this.clientList,
\* which no longer holds the client itself.
generateCiphertexts(c, i) ==
    LET peers == c.clientList[1].peers
        own == Cardinality(DOMAIN peers) + 1
    IN  [c EXCEPT
          !.ciphertexts = Some([j \in DOMAIN peers |->
              AESGCMEncrypt(peers[j].AESKey,
                  << c.id, peers[j].id,
                     c.secretKeyShamir[1][RankIn(j, DOMAIN peers)],
                     c.selfMaskSeedShamir[1][RankIn(j, DOMAIN peers)],
                     RankIn(j, DOMAIN peers) >>,
                  IvDraw(i, j))]),
          !.ownPrivateKeyShare = Some(c.secretKeyShamir[1][own]),
          !.ownSelfMaskSeedShare = Some(c.selfMaskSeedShamir[1][own]),
          !.ownIndex = Some(own)]

\* Client.round1 (generateSelfMaskSeed, generateSecretKeyShares,
\* generateSelfMaskSeedShares, computePairwiseEncryption, generateCiphertexts)
clientRound1(c, i, list) ==
    IF ~c.isUp THEN Ok(c)
    ELSE LET c1 == [c EXCEPT !.selfMaskSeed = Some(SelfMaskSeedDraw(i))]
             c2 == [c1 EXCEPT
                      !.secretKeyShamir = Some(split(i, 1, c.nbClients, c.threshold,
                                                     Digits(c.seedPrivateKey[1]))),
                      !.selfMaskSeedShamir = Some(split(i, 2, c.nbClients, c.threshold,
                                                        Digits(c1.selfMaskSeed[1])))]
         IN  IF ~splitAccepts(c.nbClients, c.threshold) THEN Throw(c1, "ShamirParameters")
             ELSE Ok(generateCiphertexts(computePairwiseEncryption(c2, list), i))

\* A check that counts the client itself among the senders.
notEnoughCiphertextsStrict(count, t) == count < t

\* The check of receiveCiphertexts on the number of ciphertexts received.
notEnoughCiphertexts(count, t) == count < t - 1

\* A client that keeps the peers from which no ciphertext arrived.
receiveCiphertextsKeepingAll(c, bundle) ==
    LET peers == c.clientList[1].peers
        got == [j \in DOMAIN peers |->
                   IF j \in DOMAIN bundle
                   THEN [peers[j] EXCEPT !.ciphertext = Some(bundle[j])]
                   ELSE peers[j]]
        c1 == [c EXCEPT !.clientList = Some([ofServer |-> FALSE, peers |-> got]),
                        !.hasClientListU2 = TRUE]
    IN  IF notEnoughCiphertexts(Cardinality(DOMAIN bundle), c.threshold)
        THEN Throw(c1, "TooFewCiphertexts")
        ELSE Ok(c1)

\* Client.receiveCiphertexts: bundle maps the sender to its ciphertext.
receiveCiphertexts(c, bundle) ==
    LET peers == c.clientList[1].peers
        got == [j \in DOMAIN peers |->
                   IF j \in DOMAIN bundle
                   THEN [peers[j] EXCEPT !.ciphertext = Some(bundle[j])]
                   ELSE peers[j]]
        kept == {j \in DOMAIN got : got[j].ciphertext # None}
        c1 == [c EXCEPT !.clientList = Some([ofServer |-> FALSE,
                                             peers |-> [j \in kept |-> got[j]]]),
                        !.hasClientListU2 = TRUE]
    IN  IF notEnoughCiphertexts(Cardinality(DOMAIN bundle), c.threshold)
        THEN Throw(c1, "TooFewCiphertexts")
        ELSE Ok(c1)

\* A client that never subtracts a pairwise mask.
MaskSignAddOnly(peerId, id) == IF peerId < id THEN 1 ELSE 0

\* The sign with which the client named id applies the mask it shares with
\* the peer named peerId: +1, -1 or 0.
MaskSign(peerId, id) == IF peerId < id THEN 1 ELSE IF peerId > id THEN 0 - 1 ELSE 0

Signed(sign, mask) == IF sign = 1 THEN mask ELSE IF sign = 0 THEN Zero ELSE NumNeg(mask)

\* The loop of computeMaskedInputVector over clientListU2, in key order.
RECURSIVE PairwiseMasks(_, _, _, _)
PairwiseMasks(c, peers, todo, view) ==
    IF todo = <<>> THEN view
    ELSE LET j == Head(todo)
             mask == PRNG(peers[j].seed, peers[j].drawn)
         IN  PairwiseMasks(c, peers, Tail(todo),
                 SetInt32(NumAdd(view, Signed(MaskSign(peers[j].id, c.id), mask))))

\* A client that leaves its self mask out of the masked value.
computeMaskedInputVectorBare(c) ==
    LET peers == c.clientList[1].peers
        view1 == PairwiseMasks(c, peers, SetToSeq(DOMAIN peers), Zero)
        view2 == SetInt32(NumAdd(view1, secretValueRounded(c.secretValue)))
    IN  [c EXCEPT !.maskedGradient = Some(view2),
                  !.clientList = Some([ofServer |-> FALSE, peers |->
                      [j \in DOMAIN peers |-> [peers[j] EXCEPT !.drawn = @ + 1]]])]

\* Client.computeMaskedInputVector
computeMaskedInputVector(c) ==
    LET peers == c.clientList[1].peers
        view1 == PairwiseMasks(c, peers, SetToSeq(DOMAIN peers), Zero)
        view2 == SetInt32(NumAdd(view1, secretValueRounded(c.secretValue)))
        view3 == SetInt32(NumAdd(view2, PRNG(c.selfMaskSeed[1], 0)))
    IN  [c EXCEPT !.maskedGradient = Some(view3),
                  !.clientList = Some([ofServer |-> FALSE, peers |->
                      [j \in DOMAIN peers |-> [peers[j] EXCEPT !.drawn = @ + 1]]])]

\* Client.round2
clientRound2(c) == IF c.isUp THEN Ok(computeMaskedInputVector(c)) ELSE Ok(c)

\* Client.receiveclientIDsU3
receiveclientIDsU3(c, clientIDsU3) ==
    IF Len(clientIDsU3) < c.threshold THEN Throw(c, "TooFewSurvivors")
    ELSE LET u2 == SetToSeq(DOMAIN c.clientList[1].peers)
             c1 == [c EXCEPT !.clientIDsU2 = Some(u2), !.clientIDsU3 = Some(clientIDsU3)]
             IDsInU3NotinU2 == Filter(clientIDsU3, Range(clientIDsU3) \ Range(u2))
         IN  IF Len(IDsInU3NotinU2) > 1 THEN Throw(c1, "MembershipViolation")
             ELSE Ok([c1 EXCEPT !.IDsinU2NotInU3 =
                                   Some(Filter(u2, Range(u2) \ Range(clientIDsU3)))])

\* A client that discloses the key share of a survivor and the seed share of
\* a dropped client.
DecryptedSplitSwapped(c, j) ==
    LET peer == c.clientList[1].peers[j]
        decoded == AESGCMDecrypt(peer.AESKey, peer.ciphertext[1].ciphertext,
                                 peer.ciphertext[1].iv)
    IN  IF decoded = None THEN [e |-> "DecryptionFailed"]
        ELSE IF j \in Range(c.clientIDsU3[1])
             THEN [e |-> "", kind |-> "keySplit", share |-> decoded[1][3],
                   index |-> decoded[1][5]]
             ELSE [e |-> "", kind |-> "seedSplit", share |-> decoded[1][4],
                   index |-> decoded[1][5]]

\* A client that decides the kind of a share by the rank of the peer relative
\* to itself, and not by the survivors list.
DecryptedSplitByRank(c, j) ==
    LET peer == c.clientList[1].peers[j]
        decoded == AESGCMDecrypt(peer.AESKey, peer.ciphertext[1].ciphertext,
                                 peer.ciphertext[1].iv)
    IN  IF decoded = None THEN [e |-> "DecryptionFailed"]
        ELSE IF peer.id < c.id
             THEN [e |-> "", kind |-> "seedSplit", share |-> decoded[1][4],
                   index |-> decoded[1][5]]
             ELSE [e |-> "", kind |-> "keySplit", share |-> decoded[1][3],
                   index |-> decoded[1][5]]

\* A client that checks the sender of a plaintext and not its recipient.
DecryptedSplitSenderOnly(c, j) ==
    LET peer == c.clientList[1].peers[j]
        decoded == AESGCMDecrypt(peer.AESKey, peer.ciphertext[1].ciphertext,
                                 peer.ciphertext[1].iv)
    IN  IF decoded = None THEN [e |-> "DecryptionFailed"]
        ELSE IF decoded[1][1] # peer.id
             THEN [e |-> "CiphertextMisdirected"]
             ELSE IF j \in Range(c.clientIDsU3[1])
                  THEN [e |-> "", kind |-> "seedSplit", share |-> decoded[1][4],
                        index |-> decoded[1][5]]
                  ELSE [e |-> "", kind |-> "keySplit", share |-> decoded[1][3],
                        index |-> decoded[1][5]]

\* One entry of the share map: the decrypted share of peer j, of the kind
\* the survivors list asks for.  None where decryptCiphertext throws.
DecryptedSplit(c, j) ==
    LET peer == c.clientList[1].peers[j]
        decoded == AESGCMDecrypt(peer.AESKey, peer.ciphertext[1].ciphertext,
                                 peer.ciphertext[1].iv)
    IN  IF decoded = None THEN [e |-> "DecryptionFailed"]
        ELSE IF decoded[1][1] # peer.id \/ decoded[1][2] # c.id
             THEN [e |-> "CiphertextMisdirected"]
             ELSE IF j \in Range(c.clientIDsU3[1])
                  THEN [e |-> "", kind |-> "seedSplit", share |-> decoded[1][4],
                        index |-> decoded[1][5]]
                  ELSE [e |-> "", kind |-> "keySplit", share |-> decoded[1][3],
                        index |-> decoded[1][5]]

\* Client.decryptCiphertext: the map is stored only when no entry threw.
decryptCiphertext(c, i) ==
    LET u2 == DOMAIN c.clientList[1].peers
        entry == [j \in u2 |-> DecryptedSplit(c, j)]
        bad == {j \in u2 : entry[j].e # ""}
    IN  IF bad # {}
        THEN Throw(c, entry[CHOOSE j \in bad : \A x \in bad : j <= x].e)
        ELSE Ok([c EXCEPT !.splits = Some(
                 [j \in u2 \cup {i} |->
                     IF j = i
                     THEN [kind |-> "seedSplit", share |-> c.ownSelfMaskSeedShare[1],
                           index |-> c.ownIndex[1]]
                     ELSE [kind |-> entry[j].kind, share |-> entry[j].share,
                           index |-> entry[j].index]])])

\* Client.round3
clientRound3(c, i) == IF c.isUp THEN decryptCiphertext(c, i) ELSE Ok(c)

\* Client.putDown
putDown(c) == [c EXCEPT !.isUp = FALSE]

\* ---------------------------------------------------------------- server
\* new Server(clients, nbClients, threshold).  clientList and clientListU2
\* are one object once computeU2 has run: hasClientListU2 says that the
\* second name exists.
NewServer ==
    [ nbClients |-> nbClient, threshold |-> threshold,
      clientList |-> None, hasClientListU2 |-> FALSE, clientCiphertextBuffer |-> None,
      clientIDsU2 |-> None, clientIDsU3 |-> None, clientU2NotInU3 |-> None,
      agg |-> None, clientIDsU5 |-> None, keyStocker |-> None, seedStocker |-> None,
      keysRetrieved |-> None, seedRecovered |-> None ]

\* What an aggregator round gives back: the aggregator and the clients after
\* it, the exception it threw ("" for none) and the value it returned.
Step(s, cs, e) == [s |-> s, cs |-> cs, e |-> e, ret |-> None]

\* Server.receivePublicKeys
receivePublicKeys(s, cs) ==
    [s EXCEPT !.clientList = Some(
        [i \in DOMAIN cs |->
            [ id |-> cs[i].id, seedPublicKey |-> cs[i].seedPublicKey,
              encryptionPublicKey |-> cs[i].encryptionPublicKey ]])]

\* Server.broadcastClients: one receiveClients after the other, until one throws.
RECURSIVE broadcastClients(_, _, _)
broadcastClients(s, cs, todo) ==
    IF todo = <<>> THEN Step(s, cs, "")
    ELSE LET r == receiveClients(cs[Head(todo)],
                                 [isArray |-> FALSE, items |-> s.clientList[1]])
             cs1 == [cs EXCEPT ![Head(todo)] = r.c]
         IN  IF r.e # "" THEN Step(s, cs1, r.e) ELSE broadcastClients(s, cs1, Tail(todo))

\* Server.round0
serverRound0(s, cs) ==
    LET s1 == receivePublicKeys(s, cs)
    IN  broadcastClients(s1, cs, SetToSeq(DOMAIN s1.clientList[1]))

\* An aggregator that takes as U2 the clients that have made ciphertexts,
\* up or down.
computeU2OfSenders(s, cs) ==
    LET list == s.clientList[1]
    IN  Step([s EXCEPT
                !.clientList = Some([i \in {x \in DOMAIN list : cs[x].ciphertexts # None}
                                        |-> list[i]]),
                !.hasClientListU2 = TRUE], cs, "")

\* An aggregator that keeps the clients that are down in its table.
computeU2OfU1(s, cs) == Step([s EXCEPT !.hasClientListU2 = TRUE], cs, "")

\* Server.computeU2: deletes from the table itself, and compares the length
\* of that object with the threshold.
computeU2(s, cs) ==
    LET list == s.clientList[1]
        s1 == [s EXCEPT !.clientList = Some([i \in {x \in DOMAIN list : cs[x].isUp} |-> list[i]]),
                        !.hasClientListU2 = TRUE]
    IN  IF JsLess(LengthOf([isArray |-> FALSE, items |-> s1.clientList[1]]), s.threshold)
        THEN Step(s1, cs, "BelowThreshold")
        ELSE Step(s1, cs, "")

\* An aggregator that hands each client the ciphertexts it made itself.
collectCiphertextsUnpivoted(s, cs) ==
    LET u2 == DOMAIN s.clientList[1]
    IN  IF \E outer, inner \in u2 : outer # inner /\ cs[inner].ciphertexts = None
        THEN Step(s, cs, "TypeError")
        ELSE Step([s EXCEPT !.clientCiphertextBuffer = Some(
                      [outer \in u2 |->
                          [inner \in u2 \ {outer} |-> cs[outer].ciphertexts[1][inner]]])],
                  cs, "")

\* Server.collectCiphertexts: reading a ciphertext of a client that has made
\* none is a TypeError.
collectCiphertexts(s, cs) ==
    LET u2 == DOMAIN s.clientList[1]
    IN  IF \E outer, inner \in u2 : outer # inner /\ cs[inner].ciphertexts = None
        THEN Step(s, cs, "TypeError")
        ELSE Step([s EXCEPT !.clientCiphertextBuffer = Some(
                      [outer \in u2 |->
                          [inner \in u2 \ {outer} |-> cs[inner].ciphertexts[1][outer]]])],
                  cs, "")

\* Server.sendCiphertexts: one receiveCiphertexts after the other, until one throws.
RECURSIVE sendCiphertexts(_, _, _)
sendCiphertexts(s, cs, todo) ==
    IF todo = <<>> THEN Step(s, cs, "")
    ELSE LET r == receiveCiphertexts(cs[Head(todo)], s.clientCiphertextBuffer[1][Head(todo)])
             cs1 == [cs EXCEPT ![Head(todo)] = r.c]
         IN  IF r.e # "" THEN Step(s, cs1, r.e) ELSE sendCiphertexts(s, cs1, Tail(todo))

\* Server.round1
serverRound1(s, cs) ==
    LET a == computeU2(s, cs)
        b == collectCiphertexts(a.s, cs)
    IN  IF a.e # "" THEN a
        ELSE IF b.e # "" THEN b
        ELSE sendCiphertexts(b.s, cs, SetToSeq(DOMAIN b.s.clientCiphertextBuffer[1]))

\* An aggregator that goes on with fewer than threshold survivors.
computeU3Unchecked(s, cs) ==
    IF ~s.hasClientListU2 THEN Step(s, cs, "TypeError")
    ELSE LET u2 == SetToSeq(DOMAIN s.clientList[1])
             u3 == Filter(u2, {i \in Range(u2) : cs[i].isUp})
         IN  Step([s EXCEPT !.clientIDsU2 = Some(u2), !.clientIDsU3 = Some(u3),
                            !.clientU2NotInU3 = Some(Filter(u2, Range(u2) \ Range(u3)))],
                  cs, "")

\* Server.computeU3
computeU3(s, cs) ==
    IF ~s.hasClientListU2 THEN Step(s, cs, "TypeError")
    ELSE LET u2 == SetToSeq(DOMAIN s.clientList[1])
             u3 == Filter(u2, {i \in Range(u2) : cs[i].isUp})
             s1 == [s EXCEPT !.clientIDsU2 = Some(u2), !.clientIDsU3 = Some(u3),
                             !.clientU2NotInU3 = Some(Filter(u2, Range(u2) \ Range(u3)))]
         IN  IF Len(u3) < s.threshold THEN Step(s1, cs, "BelowThreshold")
             ELSE Step(s1, cs, "")

\* An accumulator that adds without reducing modulo 2^32.
AddGradientUnwrapped(view, maskedGradient) ==
    IF maskedGradient = None THEN Zero ELSE NumAdd(view, maskedGradient[1])

\* view.setInt32(0, view.getInt32(0) + maskedGradient): an undefined masked
\* gradient makes the sum NaN, which setInt32 stores as 0.
AddGradient(view, maskedGradient) ==
    IF maskedGradient = None THEN Zero ELSE SetInt32(NumAdd(view, maskedGradient[1]))

RECURSIVE SumGradients(_, _, _)
SumGradients(cs, todo, view) ==
    IF todo = <<>> THEN view
    ELSE SumGradients(cs, Tail(todo), AddGradient(view, cs[Head(todo)].maskedGradient))

\* An aggregator that sums the masked gradients of all of U2.
collectMaskedGradientOfU2(s, cs) ==
    [s EXCEPT !.agg = Some(SumGradients(cs, SetToSeq(DOMAIN s.clientList[1]), Zero))]

\* Server.collectMaskedGradient
collectMaskedGradient(s, cs) ==
    [s EXCEPT !.agg = Some(SumGradients(cs,
        Filter(SetToSeq(DOMAIN s.clientList[1]), Range(s.clientIDsU3[1])), Zero))]

\* Server.sendClientIDsU3: one receiveclientIDsU3 after the other, until one throws.
RECURSIVE sendClientIDsU3(_, _, _)
sendClientIDsU3(s, cs, todo) ==
    IF todo = <<>> THEN Step(s, cs, "")
    ELSE LET r == receiveclientIDsU3(cs[Head(todo)], s.clientIDsU3[1])
             cs1 == [cs EXCEPT ![Head(todo)] = r.c]
         IN  IF r.e # "" THEN Step(s, cs1, r.e) ELSE sendClientIDsU3(s, cs1, Tail(todo))

\* An aggregator that sends the U3 list to all of U2.
serverRound2ToAllOfU2(s, cs) ==
    LET a == computeU3(s, cs)
        s1 == collectMaskedGradient(a.s, cs)
    IN  IF a.e # "" THEN a
        ELSE sendClientIDsU3(s1, cs, SetToSeq(DOMAIN s1.clientList[1]))

\* Server.round2
serverRound2(s, cs) ==
    LET a == computeU3(s, cs)
        s1 == collectMaskedGradient(a.s, cs)
    IN  IF a.e # "" THEN a
        ELSE sendClientIDsU3(s1, cs,
                 Filter(SetToSeq(DOMAIN s1.clientList[1]), Range(s1.clientIDsU3[1])))

\* An aggregator that takes all of U2 as the last membership set.
computeU5OfU2(s, cs) ==
    LET u5 == SetToSeq(DOMAIN s.clientList[1])
        s1 == [s EXCEPT !.clientIDsU5 = Some(u5)]
    IN  IF Len(u5) < s.threshold THEN Step(s1, cs, "BelowThreshold") ELSE Step(s1, cs, "")

\* Server.computeU5
computeU5(s, cs) ==
    LET u5 == Filter(SetToSeq(DOMAIN s.clientList[1]),
                     {i \in DOMAIN s.clientList[1] : cs[i].isUp})
        s1 == [s EXCEPT !.clientIDsU5 = Some(u5)]
    IN  IF Len(u5) < s.threshold THEN Step(s1, cs, "BelowThreshold") ELSE Step(s1, cs, "")

\* Server.collectResponses: per member of U5, the entries of its share map
\* for the dropped clients (keyStocker) and for the others (seedStocker); an
\* entry the map lacks is undefined, and reading the map of a client that
\* has none is a TypeError.
collectResponses(s, cs) ==
    LET u2 == DOMAIN s.clientList[1]
        dropped == Range(s.clientU2NotInU3[1])
        u5 == Range(s.clientIDsU5[1])
        entry(h, j) == IF j \in DOMAIN cs[h].splits[1] THEN cs[h].splits[1][j]
                       ELSE [kind |-> "undefined"]
    IN  IF \E h \in u5 : cs[h].splits = None /\ u2 # {}
        THEN Step(s, cs, "TypeError")
        ELSE Step([s EXCEPT
                 !.keyStocker = Some([h \in u5 |-> [d \in u2 \cap dropped |-> entry(h, d)]]),
                 !.seedStocker = Some([h \in u5 |-> [a \in u2 \ dropped |-> entry(h, a)]])],
                 cs, "")

\* The object the aggregator hands to join for the client named subject:
\* share index -> share, filled holder after holder, a later holder replacing
\* an earlier one with the same index.
RECURSIVE ShamirRecover(_, _, _, _)
ShamirRecover(stocker, subject, todo, parts) ==
    IF todo = <<>> THEN parts
    ELSE LET entry == stocker[Head(todo)][subject]
         IN  ShamirRecover(stocker, subject, Tail(todo),
                 [x \in DOMAIN parts \cup {entry.index} |->
                     IF x = entry.index THEN entry.share ELSE parts[x]])

\* Whether every entry the aggregator reads for subject is of the kind it reads.
AllOfKind(stocker, subject, kind) == \A h \in DOMAIN stocker : stocker[h][subject].kind = kind

\* Server.reconstructDroppedClientsKeys
reconstructDroppedClientsKeys(s, cs) ==
    LET dropped == Range(s.clientU2NotInU3[1])
        stocker == s.keyStocker[1]
    IN  IF \E d \in dropped : ~AllOfKind(stocker, d, "keySplit")
        THEN Step(s, cs, "TypeError")
        ELSE Step([s EXCEPT !.keysRetrieved = Some(
                 [d \in dropped |->
                     ParseInt(join(ShamirRecover(stocker, d, SetToSeq(DOMAIN stocker), <<>>)))])],
                 cs, "")

\* An aggregator that removes the masks of the dropped clients with the
\* sign the dropped client would have used.
addsDroppedMaskReversed(aliveId, droppedId) == aliveId > droppedId

\* reconstructDroppedClientsMask: whether the mask shared by the survivor
\* named aliveId and the dropped client named droppedId is added (or subtracted).
addsDroppedMask(aliveId, droppedId) == aliveId < droppedId

\* The loops of reconstructDroppedClientsMask: todo lists the pairs
\* <<dropped, alive>> in the order of the two loops.
RECURSIVE DroppedMasks(_, _, _)
DroppedMasks(s, todo, view) ==
    IF todo = <<>> THEN view
    ELSE LET d == Head(todo)[1]
             clientAlive == s.clientList[1][Head(todo)[2]]
             seed == PairwiseSeed(s.keysRetrieved[1][d], clientAlive.seedPublicKey[1])
             mask == PRNG(seed, 0)
         IN  DroppedMasks(s, Tail(todo),
                 SetInt32(NumAdd(view,
                     IF addsDroppedMask(clientAlive.id, s.clientList[1][d].id) THEN mask
                     ELSE NumNeg(mask))))

RECURSIVE Pairs(_, _)
Pairs(ds, as) ==
    IF ds = <<>> THEN <<>>
    ELSE [x \in DOMAIN as |-> <<Head(ds), as[x]>>] \o Pairs(Tail(ds), as)

\* An aggregator that pairs each dropped client with all of U2.
reconstructDroppedClientsMaskOfU2(s) ==
    LET alive == SetToSeq(DOMAIN s.clientList[1])
        view == DroppedMasks(s, Pairs(SetToSeq(DOMAIN s.keysRetrieved[1]), alive), Zero)
    IN  [s EXCEPT !.agg = Some(SetInt32(NumAdd(view, s.agg[1])))]

\* Server.reconstructDroppedClientsMask
reconstructDroppedClientsMask(s) ==
    LET alive == Filter(SetToSeq(DOMAIN s.clientList[1]), Range(s.clientIDsU3[1]))
        view == DroppedMasks(s, Pairs(SetToSeq(DOMAIN s.keysRetrieved[1]), alive), Zero)
    IN  [s EXCEPT !.agg = Some(SetInt32(NumAdd(view, s.agg[1])))]

\* An aggregator that rebuilds the self mask seed of the clients of U5 only.
seedReconstructedOfU5(s) == s.clientIDsU5[1]

\* reconstructAliveClientsSeed: the clients whose self mask seed is rebuilt.
seedReconstructed(s) == s.clientIDsU3[1]

\* Server.reconstructAliveClientsSeed
reconstructAliveClientsSeed(s, cs) ==
    LET stocker == s.seedStocker[1]
        u3 == Range(seedReconstructed(s))
    IN  IF \E a \in u3 : ~AllOfKind(stocker, a, "seedSplit")
        THEN Step(s, cs, "TypeError")
        ELSE Step([s EXCEPT !.seedRecovered = Some(
                 [a \in u3 |-> join(ShamirRecover(stocker, a, SetToSeq(DOMAIN stocker), <<>>))])],
                 cs, "")

RECURSIVE AliveMasks(_, _, _)
AliveMasks(s, todo, view) ==
    IF todo = <<>> THEN view
    ELSE AliveMasks(s, Tail(todo),
             SetInt32(NumAdd(PRNG(ParseInt(s.seedRecovered[1][Head(todo)]), 0), view)))

\* Server.reconstructAliveClientsMask
reconstructAliveClientsMask(s) ==
    LET view == AliveMasks(s, SetToSeq(DOMAIN s.seedRecovered[1]), Zero)
    IN  [s EXCEPT !.agg = Some(SetInt32(NumSub(s.agg[1], view)))]

\* The value of (this.agg / 10**4) / this.clientIDsU3.length: the fraction
\* agg / (10^4 * count).
Mean(agg, count) == [agg |-> agg, count |-> count]

\* Server.round3
serverRound3(s, cs) ==
    LET a == computeU5(s, cs)
        b == collectResponses(a.s, cs)
        c == reconstructDroppedClientsKeys(b.s, cs)
        d == reconstructAliveClientsSeed(reconstructDroppedClientsMask(c.s), cs)
        s1 == reconstructAliveClientsMask(d.s)
    IN  IF a.e # "" THEN a
        ELSE IF b.e # "" THEN b
        ELSE IF c.e # "" THEN c
        ELSE IF d.e # "" THEN d
        ELSE [s |-> s1, cs |-> cs, e |-> "", ret |-> Some(Mean(s1.agg[1], Len(s1.clientIDsU3[1])))]

\* An aggregator whose plain sum ranges over its whole table.
aggregateWithoutSecrecyOfTable(s, cs) ==
    LET summed == DOMAIN s.clientList[1]
        signed(i, n) == IF cs[i].secretValue.neg THEN 0 - n ELSE n
    IN  [m |-> NumSum([i \in summed |-> Num(signed(i, cs[i].secretValue.m))], summed),
         d5 |-> NumSum([i \in summed |-> Num(signed(i, cs[i].secretValue.d5))], summed),
         count |-> Cardinality(summed)]

\* Server.aggregateWithoutSecrecy: the sum of the secret values (its digits
\* up to the fourth decimal and the fifth decimals apart) and the count.
aggregateWithoutSecrecy(s, cs) ==
    LET summed == DOMAIN s.clientList[1] \cap Range(s.clientIDsU3[1])
        signed(i, n) == IF cs[i].secretValue.neg THEN 0 - n ELSE n
    IN  [m |-> NumSum([i \in summed |-> Num(signed(i, cs[i].secretValue.m))], summed),
         d5 |-> NumSum([i \in summed |-> Num(signed(i, cs[i].secretValue.d5))], summed),
         count |-> Cardinality(summed)]

\* ---------------------------------------------------------------- driver
\* run.js, runPersonalized: the six places where clients are put down, in
\* the order of the run; NoDrop is the entry of a client that is in no list.
DropPoints == <<"drop11", "drop12", "drop21", "drop22", "drop31", "drop32">>

NoDrop == 0

\* The steps of the run, in order.
Steps ==
    << "clients0", "server0", "drop11", "clients1", "drop12", "server1",
       "drop21", "clients2", "drop22", "server2", "drop31", "clients3",
       "drop32", "server3", "report", "done" >>

After(step) == Steps[(CHOOSE x \in DOMAIN Steps : Steps[x] = step) + 1]

\* The exception of an await-ed call ends the async function of the driver.
Proceed(step, e) == IF e = "" THEN After(step) ELSE "aborted"

\* The schedules of the run: runPersonalized is told how many clients to put
\* down at each drop point, and draws which ones.
Schedules ==
    {f \in [Positions -> {NoDrop} \cup DOMAIN DropPoints] :
        Cardinality({i \in Positions : f[i] # NoDrop}) <= MaxDrops}

\* No method of a client has been called beside those of the run.
NoCall == [op |-> "", client |-> 0, arg |-> <<>>]

Init ==
    /\ nbClient \in 1 .. MaxN
    /\ threshold \in 2 .. MaxT
    /\ rnd \in 1 .. MaxRnd
    /\ dropAt \in Schedules
    /\ pc = "clients0"
    /\ clients = [i \in Positions |-> NewClient(i)]
    /\ server = NewServer
    /\ phase = 0
    /\ err = ""
    /\ out = [masked |-> None, plain |-> None]
    /\ call = NoCall

Fixed == UNCHANGED <<nbClient, threshold, rnd, dropAt, call>>

\* for (i ...) await clientsArray[i].round0()
ClientsRound0 ==
    /\ pc = "clients0"
    /\ clients' = [i \in Positions |-> clientRound0(clients[i], i).c]
    /\ pc' = After("clients0")
    /\ UNCHANGED <<server, phase, err, out>>
    /\ Fixed

\* The effect of one aggregator round on the run.
ServerRound(step, r) ==
    /\ pc = step
    /\ server' = r.s
    /\ clients' = r.cs
    /\ err' = r.e
    /\ phase' = IF r.e = "" THEN phase + 1 ELSE phase
    /\ pc' = Proceed(step, r.e)
    /\ out' = IF r.ret = None THEN out ELSE [out EXCEPT !.masked = r.ret]
    /\ Fixed

ServerRound0 == ServerRound("server0", serverRound0(server, clients))

\* for (i ...) clientsArray[dropoutArrayIndex[p][i]].putDown()
Dropout(p) ==
    /\ pc = DropPoints[p]
    /\ clients' = [i \in Positions |-> IF dropAt[i] = p THEN putDown(clients[i]) ELSE clients[i]]
    /\ pc' = After(DropPoints[p])
    /\ UNCHANGED <<server, phase, err, out>>
    /\ Fixed

\* The clients that a loop over all clients reaches: those up to the first
\* whose call throws.
Reached(r) == {i \in Positions : \A x \in 1 .. i - 1 : r[x].e = ""}

\* The effect of a loop that calls one method of every client in turn.
ClientsRound(step, r) ==
    /\ pc = step
    /\ clients' = [i \in Positions |-> IF i \in Reached(r) THEN r[i].c ELSE clients[i]]
    /\ LET thrown == {i \in Reached(r) : r[i].e # ""}
       IN  /\ err' = IF thrown = {} THEN "" ELSE r[CHOOSE i \in thrown : TRUE].e
           /\ pc' = Proceed(step, err')
    /\ UNCHANGED <<server, phase, out>>
    /\ Fixed

\* for (i ...) await clientsArray[i].round1()
ClientsRound1 ==
    ClientsRound("clients1",
        [i \in Positions |-> clientRound1(clients[i], i, server.clientList[1])])

ServerRound1 == ServerRound("server1", serverRound1(server, clients))

\* for (i ...) clientsArray[i].round2()
ClientsRound2 == ClientsRound("clients2", [i \in Positions |-> clientRound2(clients[i])])

ServerRound2 == ServerRound("server2", serverRound2(server, clients))

\* for (i ...) await clientsArray[i].round3()
ClientsRound3 == ClientsRound("clients3", [i \in Positions |-> clientRound3(clients[i], i)])

ServerRound3 == ServerRound("server3", serverRound3(server, clients))

\* console.log(masked); console.log(server.aggregateWithoutSecrecy())
Report ==
    /\ pc = "report"
    /\ out' = [out EXCEPT !.plain = Some(aggregateWithoutSecrecy(server, clients))]
    /\ pc' = After("report")
    /\ UNCHANGED <<clients, server, phase, err>>
    /\ Fixed

Next ==
    \/ ClientsRound0
    \/ ServerRound0
    \/ \E p \in DOMAIN DropPoints : Dropout(p)
    \/ ClientsRound1
    \/ ServerRound1
    \/ ClientsRound2
    \/ ServerRound2
    \/ ClientsRound3
    \/ ServerRound3
    \/ Report

Spec == Init /\ [][Next]_vars

\* ------------------------------------- calls outside the fixed sequence
\* client.putDown() is usable between the calls of the fixed sequence, also
\* before the first of them: BeforeRound0 is that drop point.
BeforeRound0 == 7

InitAPI ==
    /\ nbClient \in 1 .. MaxN
    /\ threshold \in 2 .. MaxT
    /\ rnd \in 1 .. MaxRnd
    /\ dropAt \in {f \in [Positions -> {NoDrop, BeforeRound0} \cup DOMAIN DropPoints] :
                    Cardinality({i \in Positions : f[i] # NoDrop}) <= MaxDrops}
    /\ pc = "drop01"
    /\ clients = [i \in Positions |-> NewClient(i)]
    /\ server = NewServer
    /\ phase = 0
    /\ err = ""
    /\ out = [masked |-> None, plain |-> None]
    /\ call = NoCall

DropoutBeforeRound0 ==
    /\ pc = "drop01"
    /\ clients' = [i \in Positions |->
                      IF dropAt[i] = BeforeRound0 THEN putDown(clients[i]) ELSE clients[i]]
    /\ pc' = "clients0"
    /\ UNCHANGED <<server, phase, err, out>>
    /\ Fixed

\* await server.round3() once more, after it has returned.
ServerRound3Again ==
    /\ pc = "report"
    /\ phase = 4
    /\ LET r == serverRound3(server, clients)
       IN  /\ server' = r.s
           /\ clients' = r.cs
           /\ err' = r.e
           /\ phase' = IF r.e = "" THEN phase + 1 ELSE phase
           /\ pc' = IF r.e = "" THEN pc ELSE "aborted"
           /\ out' = IF r.ret = None THEN out ELSE [out EXCEPT !.masked = r.ret]
    /\ Fixed

NextAPI ==
    \/ DropoutBeforeRound0
    \/ ServerRound3Again
    \/ Next

SpecAPI == InitAPI /\ [][NextAPI]_vars

\* ------------------------------------------- the conversion on its own
\* A client built with one of SecretChoices as its secret value.
InitEncode ==
    /\ nbClient = 1
    /\ threshold = 2
    /\ rnd = 1
    /\ dropAt = [i \in 1 .. 1 |-> NoDrop]
    /\ pc = "encode"
    /\ \E v \in SecretChoices : clients = <<[NewClient(1) EXCEPT !.secretValue = v]>>
    /\ server = NewServer
    /\ phase = 0
    /\ err = ""
    /\ out = [masked |-> None, plain |-> None]
    /\ call = NoCall

\* The first statement of the second half of computeMaskedInputVector,
\* applied to the client's secret value.
EncodeSecretValue ==
    /\ pc = "encode"
    /\ call' = [op |-> "secretValueRounded", client |-> 1,
                arg |-> secretValueRounded(clients[1].secretValue)]
    /\ pc' = "called"
    /\ UNCHANGED <<nbClient, threshold, rnd, dropAt, clients, server, phase, err, out>>

NextEncode == EncodeSecretValue

SpecEncode == InitEncode /\ [][NextEncode]_vars

\* ------------------------------------------------ the same run once more
\* runPersonalized called a second time with the same arguments, the same
\* ids and secrets and the same random choices: new Client and Server
\* objects are built, and what the first run had produced up to its
\* position is kept beside for comparison.
RunAgain ==
    /\ call.op = ""
    /\ pc # "clients0"
    /\ call' = [op |-> "runPersonalized", client |-> 0,
                arg |-> [pc |-> pc, clients |-> clients, server |-> server,
                         phase |-> phase, err |-> err, out |-> out]]
    /\ pc' = "clients0"
    /\ clients' = [i \in Positions |-> NewClient(i)]
    /\ server' = NewServer
    /\ phase' = 0
    /\ err' = ""
    /\ out' = [masked |-> None, plain |-> None]
    /\ UNCHANGED <<nbClient, threshold, rnd, dropAt>>

NextTwice ==
    \/ RunAgain
    \/ Next

SpecTwice == Init /\ [][NextTwice]_vars

\* The exceptions thrown because a membership set is smaller than the
\* threshold: computeU2, computeU3 and computeU5 of the Server,
\* receiveCiphertexts and receiveclientIDsU3 of the Client.
ThresholdErrors == {"BelowThreshold", "TooFewCiphertexts", "TooFewSurvivors"}

\* Server.round1, round2 or round3 by its number.
serverRoundNumber(k, s, cs) ==
    IF k = 1 THEN serverRound1(s, cs)
    ELSE IF k = 2 THEN serverRound2(s, cs)
    ELSE serverRound3(s, cs)

\* await server.roundK() on the same Server after a round has thrown: the
\* object is still there and nothing in it records the failure.
ServerRoundAfterFailure ==
    /\ \/ pc = "aborted" /\ err \in ThresholdErrors
       \/ pc = "retried"
    /\ server.hasClientListU2
    /\ \E k \in 1 .. 3 :
          LET r == serverRoundNumber(k, server, clients)
          IN  /\ server' = r.s
              /\ clients' = r.cs
              /\ err' = r.e
              /\ out' = IF r.ret = None THEN out ELSE [out EXCEPT !.masked = r.ret]
              /\ call' = [op |-> "round", client |-> 0, arg |-> <<k>>]
    /\ pc' = "retried"
    /\ UNCHANGED <<nbClient, threshold, rnd, dropAt, phase>>

NextRetry ==
    \/ ServerRoundAfterFailure
    \/ NextAPI

SpecRetry == InitAPI /\ [][NextRetry]_vars

\* ------------------------------------------- direct calls of a client
\* The methods by which the aggregator talks to a client are public: a
\* caller may hand a client any table, bundle or list.  The run is the one
\* of the driver without dropouts up to the call; the call takes the place
\* of the aggregator's round.
InitCalls ==
    /\ Init
    /\ \A i \in Positions : dropAt[i] = NoDrop

\* The public keys a caller may put in a table.
KeyChoices == {1, 2}

\* client.receiveClients(table), the table being an array or an object keyed
\* by client id, and its public keys any keys.
\* The keys of a client's table of peers.
U2LocalOf(c) == DOMAIN c.clientList[1].peers

CallReceiveClients ==
    /\ pc = "server0"
    /\ \E i \in Positions, asArray \in BOOLEAN, keys \in [Positions -> KeyChoices] :
          LET table == [isArray |-> asArray,
                        items |-> [x \in Positions |->
                            [ id |-> clients[x].id, seedPublicKey |-> Some(keys[x]),
                              encryptionPublicKey |-> clients[x].encryptionPublicKey ]]]
              r == receiveClients(clients[i], table)
          IN  /\ clients' = [clients EXCEPT ![i] = r.c]
              /\ err' = r.e
              /\ call' = [op |-> "receiveClients", client |-> i, arg |-> table]
    /\ pc' = "called"
    /\ UNCHANGED <<nbClient, threshold, rnd, dropAt, server, phase, out>>

\* client.receiveCiphertexts(bundle), the bundle holding the ciphertexts that
\* any set of the client's peers made for it.
CallReceiveCiphertexts ==
    /\ pc = "server1"
    /\ \E i \in Positions, senders \in SUBSET Positions :
          /\ i \notin senders
          /\ LET bundle == [j \in senders |-> clients[j].ciphertexts[1][i]]
                 r == receiveCiphertexts(clients[i], bundle)
             IN  /\ clients' = [clients EXCEPT ![i] = r.c]
                 /\ err' = r.e
                 /\ pc' = IF r.e = "" THEN "received" ELSE "aborted"
                 /\ call' = [op |-> "receiveCiphertexts", client |-> i, arg |-> senders]
    /\ UNCHANGED <<nbClient, threshold, rnd, dropAt, server, phase, out>>

\* client.receiveclientIDsU3(ids) on the client that received a bundle, ids
\* being any list of client ids.
CallReceiveclientIDsU3 ==
    /\ pc = "received"
    /\ \E ids \in {SetToSeq(S) : S \in SUBSET Positions} :
          LET r == receiveclientIDsU3(clients[call.client], ids)
          IN  /\ clients' = [clients EXCEPT ![call.client] = r.c]
              /\ err' = r.e
              /\ call' = [op |-> "receiveclientIDsU3", client |-> call.client, arg |-> ids]
    /\ pc' = "called"
    /\ UNCHANGED <<nbClient, threshold, rnd, dropAt, server, phase, out>>

\* client.round3() on a client whose stored ciphertext of peer j is one made
\* under the key of the pair, with a plaintext that names u as sender and v
\* as recipient (j and the client itself in an honest run).  The client is
\* taken before its round3 of the run or after it, when it has a share map.
CallDecryptCiphertext ==
    /\ pc \in {"clients3", "drop32"}
    /\ \E i \in Positions : \E j \in U2LocalOf(clients[i]) : \E u, v \in Positions :
          LET peer == clients[i].clientList[1].peers[j]
              sent == peer.ciphertext[1].ciphertext.message
              forged == AESGCMEncrypt(peer.AESKey,
                            <<Id(u), Id(v), sent[3], sent[4], sent[5]>>,
                            peer.ciphertext[1].iv)
              c == [clients[i] EXCEPT !.clientList = Some([ofServer |-> FALSE, peers |->
                       [clients[i].clientList[1].peers EXCEPT ![j] =
                           [peer EXCEPT !.ciphertext = Some(forged)]]])]
              r == clientRound3(c, i)
          IN  /\ clients' = [clients EXCEPT ![i] = r.c]
              /\ err' = r.e
              /\ call' = [op |-> "decryptCiphertext", client |-> i,
                          arg |-> [peer |-> j, sender |-> u, recipient |-> v,
                                   before |-> clients[i].splits]]
    /\ pc' = "called"
    /\ UNCHANGED <<nbClient, threshold, rnd, dropAt, server, phase, out>>

NextCalls ==
    \/ CallReceiveClients
    \/ CallReceiveCiphertexts
    \/ CallReceiveclientIDsU3
    \/ CallDecryptCiphertext
    \/ Next

SpecCalls == InitCalls /\ [][NextCalls]_vars

\* ------------------------------------------------------------ the claims
\* What the run was given, read off the inputs rather than off the parties.
FixedPoint(i) == secretValueRounded(SecretOf(i))

ExactSum(S) == NumSum([i \in S |-> FixedPoint(i)], S)

\* The clients still up when the aggregator runs round 1, 2 and 3.
UpAtRound1 == {i \in Positions : dropAt[i] = NoDrop \/ dropAt[i] \in 3 .. 6}

UpAtRound2 == {i \in Positions : dropAt[i] = NoDrop \/ dropAt[i] \in 5 .. 6}

UpAtRound3 == {i \in Positions : dropAt[i] = NoDrop}

Returned == pc \in {"report", "done"}

\* C1: without dropouts and with N >= t >= 2 no call throws, and when the
\* exact sum of the fixed-point secrets fits in 32 bits, round3 returns that
\* sum / 10^4 / N, whatever the random draws were.
C1_NoDropouts ==
    (nbClient >= threshold /\ UpAtRound3 = Positions) =>
        /\ err = ""
        /\ (Returned /\ IsInt32(ExactSum(Positions))) =>
               out.masked = Some(Mean(ExactSum(Positions), nbClient))

C1_Witness ==
    /\ pc = "done" /\ UpAtRound3 = Positions /\ nbClient = MaxN
    /\ IsInt32(ExactSum(Positions))
    /\ out.masked = Some(Mean(ExactSum(Positions), nbClient))
    /\ \E i \in Positions : clients[i].maskedGradient[1] # FixedPoint(i)

\* C2: when the only dropouts after round 0 and 1 of the clients are those
\* of a set D put down between server.round1() and server.round2(), and at
\* least t clients of U2 remain, no call throws, U3 = U2 \ D, and round3
\* returns the sum of the fixed-point secrets of U3 / 10^4 / |U3| (the sum
\* fitting in 32 bits).
C2_DropoutsAfterRound1 ==
    (UpAtRound2 = UpAtRound3 /\ Cardinality(UpAtRound2) >= threshold) =>
        /\ err = ""
        /\ Returned =>
              /\ server.clientIDsU3 = Some(SetToSeq(UpAtRound2))
              /\ IsInt32(ExactSum(UpAtRound2)) =>
                     out.masked = Some(Mean(ExactSum(UpAtRound2), Cardinality(UpAtRound2)))

C2_Witness ==
    /\ pc = "done"
    /\ UpAtRound2 = UpAtRound3
    /\ \E d \in UpAtRound1 \ UpAtRound2 : d \in DOMAIN server.keysRetrieved[1]
    /\ out.masked = Some(Mean(ExactSum(UpAtRound2), Cardinality(UpAtRound2)))

\* C3: whenever a membership set is computed with fewer than t clients up,
\* the aggregator raises BelowThreshold, and round3 returns nothing.
C3_ThresholdRefusal ==
    /\ (server.hasClientListU2 /\ Cardinality(UpAtRound1) < threshold) =>
           (err = "BelowThreshold" /\ out.masked = None)
    /\ (server.clientIDsU3 # None /\ Cardinality(UpAtRound2) < threshold) =>
           (err = "BelowThreshold" /\ out.masked = None)
    /\ (server.clientIDsU5 # None /\ Cardinality(UpAtRound3) < threshold) =>
           (err = "BelowThreshold" /\ out.masked = None)

\* C4: with N >= t and at least t clients up when server.round3() is
\* invoked, no call of the run throws, every step of the run hands over to
\* the next one, and once round3 has returned it has returned a value.
C4_DropoutTolerance ==
    (nbClient >= threshold /\ Cardinality(UpAtRound3) >= threshold) =>
        /\ err = "" /\ pc # "aborted"
        /\ Returned => out.masked # None

C4_Witness ==
    /\ pc = "done" /\ err = "" /\ out.masked # None
    /\ Cardinality(UpAtRound3) = threshold
    /\ \E i, j \in Positions : dropAt[i] \in {1, 2} /\ dropAt[j] \in {5, 6}

\* C5: with clients of U3 put down after server.round2(), round3 still
\* returns the sum of the fixed-point secrets of all of U3 / 10^4 / |U3|:
\* the self mask seed of every client of U3 is rebuilt, and the keys rebuilt
\* are those of U2 \ U3 only, none of a client dropped that late.
C5_DropoutsAfterRound2 ==
    (Returned /\ UpAtRound2 # UpAtRound3) =>
        /\ DOMAIN server.seedRecovered[1] = UpAtRound2
        /\ DOMAIN server.keysRetrieved[1] = UpAtRound1 \ UpAtRound2
        /\ out.masked[1].count = Cardinality(UpAtRound2)
        /\ IsInt32(ExactSum(UpAtRound2)) => out.masked[1].agg = ExactSum(UpAtRound2)

C5_Witness ==
    /\ pc = "done"
    /\ \E i, j \in Positions : dropAt[i] = 5 /\ dropAt[j] = 6
    /\ out.masked = Some(Mean(ExactSum(UpAtRound2), Cardinality(UpAtRound2)))

\* The mask that client j shares with client d, as j applies it in round 2.
AppliedMask(j, d) ==
    LET mask == PRNG(PairwiseSeed(SeedKeyDraw(j), PublicKey(SeedKeyDraw(d))), 0)
    IN  IF Id(d) < Id(j) THEN mask ELSE NumNeg(mask)

\* C6: after server.round2() the accumulator is, modulo 2^32, the sum over
\* U3 of fixed-point secret + self mask, plus the masks the clients of U3
\* applied for the clients of U2 \ U3: the masks of two clients of U3 cancel.
C6_PairwiseCancellation ==
    (phase = 3) =>
        LET u3 == Range(server.clientIDsU3[1])
            gone == Range(server.clientU2NotInU3[1])
            own == [i \in u3 |-> NumAdd(FixedPoint(i), PRNG(SelfMaskSeedDraw(i), 0))]
            left == [j \in u3 |-> NumSum([d \in gone |-> AppliedMask(j, d)], gone)]
        IN  server.agg = Some(SetInt32(NumAdd(NumSum(own, u3), NumSum(left, u3))))

C6_Witness ==
    /\ phase = 3
    /\ Len(server.clientIDsU3[1]) >= 2
    /\ server.clientU2NotInU3[1] # <<>>
    /\ \E i \in Range(server.clientIDsU3[1]) :
          \E j \in DOMAIN clients[i].clientList[1].peers :
             j \in Range(server.clientIDsU3[1]) /\ clients[i].clientList[1].peers[j].drawn = 1

\* The membership sets of the aggregator, empty while not computed.
U1 == IF server.clientList = None THEN {} ELSE Positions

U2 == IF server.hasClientListU2 THEN DOMAIN server.clientList[1] ELSE {}

U3 == IF server.clientIDsU3 = None THEN {} ELSE Range(server.clientIDsU3[1])

U5 == IF server.clientIDsU5 = None THEN {} ELSE Range(server.clientIDsU5[1])

\* What one step of a run does to the membership sets and to the clients.
MembershipStep ==
    /\ U2' \subseteq U1' /\ U3' \subseteq U2' /\ U5' \subseteq U3'
    /\ server.hasClientListU2 => U2' \subseteq U2
    /\ server.clientIDsU3 # None => U3' \subseteq U3
    /\ server.clientIDsU5 # None => U5' \subseteq U5
    /\ \A i \in Positions : ~clients[i].isUp => ~clients'[i].isUp

\* C7: at every step of a run the sets computed so far satisfy
\* U1 >= U2 >= U3 >= U5, a set once computed gains no member, the table of
\* the aggregator gains no client once pruned, and no client that is down
\* comes up again.
C7_MembershipMonotone == [][MembershipStep]_vars

C7_Witness ==
    /\ server.clientIDsU5 # None
    /\ U5 # U3 /\ U3 # U2 /\ U5 # {}
    /\ \E i \in U2 \ U5 : ~clients[i].isUp

\* What one step of a run does to the phase of the aggregator: it moves one
\* step at a time and not past the end of round 3, a round completes only
\* when the set the round before it produced has at least t members
\* (round 1 with |U1| >= t, round 2 with |U2| >= t, round 3 with |U3| >= t),
\* and a round invoked after the last leaves the aggregator as it is.
AggregatorStep ==
    /\ phase' # phase => (phase' = phase + 1 /\ phase < 4)
    /\ phase' >= 2 => Cardinality(U1') >= threshold
    /\ phase' >= 3 => Cardinality(U2') >= threshold
    /\ phase' >= 4 => Cardinality(U3') >= threshold
    /\ phase = 4 => (server' = server /\ out'.masked = out.masked)

\* C8: the phase of the aggregator advances only along the fixed order, each
\* time with a previous membership set of at least t members, and a round
\* invoked out of that order does not take effect.
C8_AggregatorStateMachine == [][AggregatorStep]_vars

\* What a loop over the round methods of the clients does to a client that
\* is down.
DownClientsUntouched ==
    pc \in {"clients0", "clients1", "clients2", "clients3"} =>
        \A i \in Positions : ~clients[i].isUp => clients'[i] = clients[i]

\* C9: a round method of a client that is down leaves the client as it is.
C9_PutDownFailStop == [][DownClientsUntouched]_vars

\* C10: when the table broadcast in round 0 holds fewer than t clients,
\* server.round0() ends with TooFewClients and no client has recorded the
\* table.
C10_TooFewClients ==
    (nbClient < threshold /\ pc \notin {"drop01", "clients0", "server0"}) =>
        /\ err = "TooFewClients"
        /\ \A i \in Positions : clients[i].clientList = None

\* Whether two entries of a table carry the same seed public key.
HasCollision(table) ==
    \E x, y \in DOMAIN table.items :
        x # y /\ table.items[x].seedPublicKey = table.items[y].seedPublicKey

\* C11: receiveClients, handed a table keyed by client id in which two
\* clients carry the same public key, throws KeyCollision.
C11_KeyCollision ==
    (call.op = "receiveClients" /\ ~call.arg.isArray /\ HasCollision(call.arg)) =>
        err = "KeyCollision"

\* The peers a client holds as its U2.
U2Local(i) == DOMAIN clients[i].clientList[1].peers

NamesStranger(ids, i) == \E x \in Range(ids) : x # i /\ x \notin U2Local(i)

\* C13: receiveclientIDsU3(ids) throws TooFewSurvivors when ids holds fewer
\* than t ids, and otherwise MembershipViolation when ids names a client,
\* other than the receiver, that is not in the receiver's U2.
C13_ReceiveClientIDsU3 ==
    (call.op = "receiveclientIDsU3") =>
        /\ Len(call.arg) < threshold => err = "TooFewSurvivors"
        /\ (Len(call.arg) >= threshold /\ NamesStranger(call.arg, call.client)) =>
               err = "MembershipViolation"

\* C14: server.round1(), invoked with fewer than t clients up, throws
\* BelowThreshold, whatever the number of clients up, none included.
C14_Round1BelowThreshold ==
    (server.hasClientListU2 /\ server.clientIDsU3 = None
        /\ Cardinality(UpAtRound1) < threshold) => err = "BelowThreshold"

\* The index of the shares that client j allotted to client i in round 1.
AllottedIndex(j, i) == Cardinality({x \in Positions \ {j} : x <= i})

\* What the share map of client i must hold for its peer j.
ExpectedSplit(i, j) ==
    IF j \in Range(clients[i].clientIDsU3[1])
    THEN [kind |-> "seedSplit",
          share |-> clients[j].selfMaskSeedShamir[1][AllottedIndex(j, i)],
          index |-> AllottedIndex(j, i)]
    ELSE [kind |-> "keySplit",
          share |-> clients[j].secretKeyShamir[1][AllottedIndex(j, i)],
          index |-> AllottedIndex(j, i)]

\* The clients that are up when the clients run round 3.
UpAtClientsRound3 == {i \in Positions : dropAt[i] = NoDrop \/ dropAt[i] = 6}

\* C15: once the clients have run round 3, every client that was up then
\* holds a share map with one entry per peer of its U2 and one for itself;
\* the entry for a peer is the peer's seed share if the peer is in the U3
\* list the client received and the peer's key share if not; the own entry
\* is the client's own seed share with its own index.
C15_ShareDisclosure ==
    (pc \in {"drop32", "server3", "report", "done"}) =>
        \A i \in UpAtClientsRound3 :
            /\ clients[i].splits # None
            /\ DOMAIN clients[i].splits[1] = U2Local(i) \cup {i}
            /\ \A j \in U2Local(i) : clients[i].splits[1][j] = ExpectedSplit(i, j)
            /\ clients[i].splits[1][i] =
                   [kind |-> "seedSplit",
                    share |-> clients[i].selfMaskSeedShamir[1][clients[i].ownIndex[1]],
                    index |-> clients[i].ownIndex[1]]

C15_Witness ==
    /\ pc = "drop32"
    /\ \E i \in UpAtClientsRound3 : \E j, k \in U2Local(i) :
          /\ clients[i].splits[1][j].kind = "seedSplit"
          /\ clients[i].splits[1][k].kind = "keySplit"

\* The sum over S of the secret values cut after the fourth decimal, signed.
TruncatedSum(S) ==
    NumSum([i \in S |-> Num(IF SecretOf(i).neg THEN 0 - SecretOf(i).m ELSE SecretOf(i).m)], S)

\* a - b for two numbers that differ by less than 2^15.
SmallDifference(a, b) == (a[1] - b[1]) * Half + (a[2] - b[2])

\* C16: when the run completes, aggregateWithoutSecrecy() has summed the
\* secrets of exactly the clients of U3 and counted |U3|, the divisor of
\* round3 is the same |U3|, and the sum that round3 divides differs from the
\* plain sum, in units of 10^-4, by at most one per client (the sum fitting
\* in 32 bits).
C16_SameSet ==
    (pc = "done") =>
        /\ out.plain[1].count = Cardinality(U3)
        /\ out.plain[1].m = TruncatedSum(U3)
        /\ U3 = UpAtRound2
        /\ out.masked[1].count = out.plain[1].count
        /\ IsInt32(ExactSum(U3)) =>
               LET diff == SmallDifference(out.masked[1].agg, out.plain[1].m)
               IN  diff <= Cardinality(U3) /\ 0 - diff <= Cardinality(U3)

C16_Witness ==
    /\ pc = "done"
    /\ U2 # Positions /\ U5 # U3
    /\ out.masked[1].agg # out.plain[1].m

\* C17: once server.round1() has returned, every client i of U2 holds
\* U2 \ {i} as its own U2; a client holds a U3 list only if it is in U3,
\* the list is the aggregator's, and once server.round2() has returned every
\* client of U3 holds it.
C17_AgreementOfViews ==
    /\ phase >= 2 =>
          \A i \in U2 : clients[i].hasClientListU2 /\ U2Local(i) = U2 \ {i}
    /\ \A i \in Positions :
          clients[i].clientIDsU3 # None =>
              (i \in U3 /\ clients[i].clientIDsU3 = server.clientIDsU3)
    /\ phase >= 3 => \A i \in U3 : clients[i].clientIDsU3 # None

C17_Witness ==
    /\ phase >= 3
    /\ U2 # Positions /\ U3 # U2
    /\ \E i \in U2 \ U3 : clients[i].maskedGradient # None /\ clients[i].clientIDsU3 = None
    /\ \E i \in U3 : clients[i].clientIDsU3 = server.clientIDsU3

\* Whether the entries that the holders of stocker carry for subject are all
\* of the given kind and have pairwise distinct share indices.
GatheredShares(stocker, subject, kind) ==
    /\ \A h \in DOMAIN stocker :
          subject \in DOMAIN stocker[h] /\ stocker[h][subject].kind = kind
    /\ \A g, h \in DOMAIN stocker :
          g # h => stocker[g][subject].index # stocker[h][subject].index

\* C18: once round 3 has gathered the responses, the holders are the
\* clients of U5 and number at least t; for every client of U2 \ U3 each
\* holder carries a key share, for every client of U3 each holder carries a
\* seed share, and the shares gathered for one client have pairwise
\* distinct indices.
C18_Reconstructibility ==
    (server.keyStocker # None) =>
        /\ Cardinality(U5) >= threshold
        /\ DOMAIN server.keyStocker[1] = U5 /\ DOMAIN server.seedStocker[1] = U5
        /\ \A d \in U2 \ U3 : GatheredShares(server.keyStocker[1], d, "keySplit")
        /\ \A a \in U3 : GatheredShares(server.seedStocker[1], a, "seedSplit")

C18_Witness ==
    /\ server.keysRetrieved # None /\ server.seedRecovered # None
    /\ U2 \ U3 # {} /\ U3 \ U5 # {}
    /\ \E a \in U5 : GatheredShares(server.seedStocker[1], a, "seedSplit")

\* Two clients that ran computePairwiseEncryption and hold each other in their
\* peer tables.
Paired(i, j) ==
    /\ i # j
    /\ clients[i].clientList # None /\ clients[j].clientList # None
    /\ ~clients[i].clientList[1].ofServer /\ ~clients[j].clientList[1].ofServer
    /\ j \in U2Local(i) /\ i \in U2Local(j)

\* C19 (symmetric derivation): two clients that ran computePairwiseEncryption
\* on each other's public keys hold the same pairwise seed and the same AES
\* key, and the pairwise seed the Server derives from the rebuilt private key
\* of a dropped client d and the public key of a survivor j is the seed j
\* stored for d (the rebuilt key being the key d drew).
C19_SymmetricDerivation ==
    /\ \A i, j \in Positions : Paired(i, j) =>
          /\ clients[i].clientList[1].peers[j].seed = clients[j].clientList[1].peers[i].seed
          /\ clients[i].clientList[1].peers[j].AESKey = clients[j].clientList[1].peers[i].AESKey
    /\ server.keysRetrieved # None =>
          \A d \in DOMAIN server.keysRetrieved[1] : \A j \in U3 :
             /\ server.keysRetrieved[1][d] = clients[d].seedPrivateKey[1]
             /\ PairwiseSeed(server.keysRetrieved[1][d],
                             server.clientList[1][j].seedPublicKey[1])
                  = clients[j].clientList[1].peers[d].seed

C19_Witness ==
    /\ server.keysRetrieved # None
    /\ \E d \in DOMAIN server.keysRetrieved[1] : \E j \in U3 :
          /\ Paired(d, j)
          /\ clients[d].seedPrivateKey # clients[j].seedPrivateKey
          /\ clients[d].encryptionPrivateKey # clients[j].encryptionPrivateKey

\* C20 (a threshold failure is terminal): once a round has thrown because a
\* membership set had fewer than threshold members, every later call of an
\* aggregator round throws as well, and server.round3() returns no value.
C20_FailureIsTerminal ==
    (pc = "retried") => (err # "" /\ out.masked = None)

\* The second run has come to the position at which the first was left.
SamePosition == call.op = "runPersonalized" /\ pc = call.arg.pc

PairwiseMask(i, j) == PRNG(PairwiseSeed(SeedKeyDraw(i), PublicKey(SeedKeyDraw(j))), 0)

\* The masked value of client i as the sum of its terms over the peers S.
MaskedValue(i, S) ==
    LET below == {j \in S : Id(j) < Id(i)}
        above == {j \in S : Id(j) > Id(i)}
    IN  NumAdd(NumAdd(FixedPoint(i), PRNG(SelfMaskSeedDraw(i), 0)),
               NumSub(NumSum([j \in below |-> PairwiseMask(i, j)], below),
                      NumSum([j \in above |-> PairwiseMask(i, j)], above)))

\* C22 (round2 masked value): a client has a masked value exactly if it was
\* up at its round2, and then the value is, reduced modulo 2^32 into the
\* signed 32-bit range, its fixed-point secret plus the first output of the
\* generator seeded with its self mask seed, plus the pairwise masks of the
\* peers of its clientListU2 with a smaller id, minus those of the peers
\* with a larger id; its clientListU2 being the clients the aggregator found
\* up in round1, itself excluded.
C22_MaskedValue ==
    (pc \notin {"clients0", "server0", "drop11", "clients1", "drop12", "server1",
                "drop21", "clients2", "aborted"}) =>
        \A i \in Positions :
            IF i \in UpAtRound2 \/ dropAt[i] = 4
            THEN /\ U2Local(i) = UpAtRound1 \ {i}
                 /\ clients[i].maskedGradient = Some(SetInt32(MaskedValue(i, U2Local(i))))
            ELSE clients[i].maskedGradient = None

C22_Witness ==
    /\ pc = "drop22"
    /\ \E i \in Positions :
          /\ clients[i].maskedGradient # None
          /\ \E j, k \in U2Local(i) : Id(j) < Id(i) /\ Id(k) > Id(i)
          /\ U2Local(i) # Positions \ {i}
          /\ ~IsInt32(MaskedValue(i, U2Local(i)))

\* server.round3() up to reconstructDroppedClientsKeys, from the present
\* state: the exception of the first three steps ("" for none) and the
\* aggregator after them.
Round3Keys ==
    LET a == computeU5(server, clients)
        b == collectResponses(a.s, clients)
        c == reconstructDroppedClientsKeys(b.s, clients)
    IN  [e |-> IF a.e # "" THEN a.e ELSE IF b.e # "" THEN b.e ELSE c.e,
         s |-> IF a.e # "" THEN a.s ELSE IF b.e # "" THEN b.s ELSE c.s]

\* The sum over S of fixed-point secret + self mask.
SelfMaskedSum(S) ==
    NumSum([i \in S |-> NumAdd(FixedPoint(i), PRNG(SelfMaskSeedDraw(i), 0))], S)

\* C23 (removal of the dropped clients' pairwise masks): when round3 gets to
\* reconstructDroppedClientsMask, for every client d of U2 \ U3 and every
\* survivor j of U3 the value drawn from the rebuilt key of d and the public
\* key of j is the mask of the pair, it is added exactly when j subtracted
\* it in round2, and the accumulator after the step is, modulo 2^32, the sum
\* over U3 of fixed-point secret + self mask.
C23_DroppedMasksRemoved ==
    (pc = "server3" /\ Round3Keys.e = "") =>
        LET s0 == Round3Keys.s
            s1 == reconstructDroppedClientsMask(s0)
        IN  /\ DOMAIN s0.keysRetrieved[1] = U2 \ U3
            /\ \A d \in U2 \ U3 : \A j \in U3 :
                  /\ PRNG(PairwiseSeed(s0.keysRetrieved[1][d],
                                       s0.clientList[1][j].seedPublicKey[1]), 0)
                       = PairwiseMask(j, d)
                  /\ addsDroppedMask(Id(j), Id(d)) <=> MaskSign(Id(d), Id(j)) = 0 - 1
                  /\ ~addsDroppedMask(Id(j), Id(d)) <=> MaskSign(Id(d), Id(j)) = 1
            /\ s1.agg = Some(SetInt32(SelfMaskedSum(U3)))

C23_Witness ==
    /\ pc = "server3" /\ Round3Keys.e = ""
    /\ U2 \ U3 # {}
    /\ \E d \in U2 \ U3 : \E j, k \in U3 : Id(j) < Id(d) /\ Id(d) < Id(k)
    /\ server.agg # Some(SetInt32(SelfMaskedSum(U3)))

\* A step in which an aggregator round throws leaves the clients and the
\* aggregator as they were.
FailedRoundAtomic ==
    (pc \in {"server1", "server2", "server3"} /\ err = "" /\ err' # "")
        => (clients' = clients /\ server' = server)

\* C24 (failed rounds are atomic): if server.round1(), round2() or round3()
\* ends with an exception, no client was changed by it and the aggregator's
\* membership sets and accumulator are as before the call.
C24_FailedRoundsAtomic == [][FailedRoundAtomic]_vars

\* The rest of server.round3() after reconstructDroppedClientsKeys, in the
\* order of the code: the pairwise masks of the dropped clients, then the
\* self masks of U3.
PairwiseThenSelf(s0) ==
    reconstructAliveClientsMask(
        reconstructAliveClientsSeed(reconstructDroppedClientsMask(s0), clients).s)

\* The same steps with the self masks removed first.
SelfThenPairwise(s0) ==
    reconstructDroppedClientsMask(
        reconstructAliveClientsMask(reconstructAliveClientsSeed(s0, clients).s))

\* round3 gets through its reconstruction from the present state.
Round3Reconstructs ==
    /\ pc = "server3"
    /\ Round3Keys.e = ""
    /\ reconstructAliveClientsSeed(Round3Keys.s, clients).e = ""

\* C25 (order independence of unmasking): from every state in which round3
\* gets to its reconstruction, removing the self masks of U3 before the
\* pairwise masks of the dropped clients gives the same accumulator and the
\* same mean as the order of the code, and both are what round3 produces.
C25_OrderIndependence ==
    Round3Reconstructs =>
        LET a == PairwiseThenSelf(Round3Keys.s)
            b == SelfThenPairwise(Round3Keys.s)
            r == serverRound3(server, clients)
        IN  /\ a.agg = b.agg
            /\ a.agg # None
            /\ r.e = "" /\ r.s.agg = a.agg
            /\ r.ret = Some(Mean(b.agg[1], Len(b.clientIDsU3[1])))

\* A state in which both kinds of mask are removed and the two orders pass
\* through different intermediate values, one of them by wrapping around.
C25_Witness ==
    /\ Round3Reconstructs
    /\ U2 \ U3 # {}
    /\ LET s0 == Round3Keys.s
           selfMasks == NumSum([i \in U3 |-> PRNG(SelfMaskSeedDraw(i), 0)], U3)
       IN  /\ reconstructDroppedClientsMask(s0).agg # s0.agg
           /\ ~IsInt32(NumSub(s0.agg[1], selfMasks))
           /\ reconstructDroppedClientsMask(s0).agg
                # reconstructAliveClientsMask(reconstructAliveClientsSeed(s0, clients).s).agg

\* The senders whose ciphertext client j holds.
Delivered(j) ==
    IF clients[j].clientList = None \/ clients[j].clientList[1].ofServer THEN {}
    ELSE {i \in DOMAIN clients[j].clientList[1].peers :
             clients[j].clientList[1].peers[i].ciphertext # None}

\* C26 (ciphertext routing): once server.round1() has returned, every client
\* j of U2 holds one ciphertext from each other client of U2 and from nobody
\* else, the one held for sender i is the ciphertext i made for j (its
\* plaintext names i as sender and j as recipient), and a client outside U2
\* holds none.
C26_CiphertextRouting ==
    (phase >= 2) =>
        /\ U2 = UpAtRound1
        /\ \A j \in Positions \ U2 : Delivered(j) = {} /\ ~clients[j].hasClientListU2
        /\ \A j \in U2 :
              /\ Delivered(j) = U2 \ {j}
              /\ server.clientCiphertextBuffer # None
              /\ DOMAIN server.clientCiphertextBuffer[1][j] = U2 \ {j}
              /\ \A i \in U2 \ {j} :
                    LET held == clients[j].clientList[1].peers[i].ciphertext[1]
                    IN  /\ held = clients[i].ciphertexts[1][j]
                        /\ held = server.clientCiphertextBuffer[1][j][i]
                        /\ held.ciphertext.message[1] = Id(i)
                        /\ held.ciphertext.message[2] = Id(j)

C26_Witness ==
    /\ phase = 2
    /\ U2 # Positions
    /\ Cardinality(U2) >= 3
    /\ \E j \in U2 : \E i \in Positions \ U2 :
          /\ clients[i].ciphertexts # None
          /\ j \in DOMAIN clients[i].ciphertexts[1]
          /\ i \notin Delivered(j)

\* The rank of client k in the order of the aggregator's table of all N
\* clients, from 1.
RankOfAll(k) == Cardinality({x \in Positions : x <= k})

\* C27 (share index assignment): for every client that made its ciphertexts,
\* the index in the plaintext for peer k is the rank of k among all N
\* clients, and the client's own index is its own rank.
C27_ShareIndex ==
    \A i \in Positions :
        clients[i].ciphertexts # None =>
            /\ \A k \in DOMAIN clients[i].ciphertexts[1] :
                  clients[i].ciphertexts[1][k].ciphertext.message[5] = RankOfAll(k)
            /\ clients[i].ownIndex = Some(RankOfAll(i))

\* The plaintext handed to the client names another sender than the peer it
\* is stored for, or another recipient than the client.
Misdirected == call.arg.sender # call.arg.peer \/ call.arg.recipient # call.client

\* C28 (misdirected ciphertexts are rejected): round3 of a client one of
\* whose ciphertexts decrypts to a plaintext with another sender than the
\* peer or another recipient than the client throws CiphertextMisdirected
\* and leaves the client's share map as it was; with the right sender and
\* recipient it throws nothing and stores a share map.
C28_MisdirectedRejected ==
    (call.op = "decryptCiphertext") =>
        IF Misdirected
        THEN /\ err = "CiphertextMisdirected"
             /\ clients[call.client].splits = call.arg.before
        ELSE /\ err = ""
             /\ clients[call.client].splits # None
             /\ call.arg.peer \in DOMAIN clients[call.client].splits[1]

C28_Witness ==
    /\ call.op = "decryptCiphertext"
    /\ call.arg.sender = call.arg.peer
    /\ call.arg.recipient # call.client
    /\ call.arg.before # None
    /\ err = "CiphertextMisdirected"
    /\ clients[call.client].splits = call.arg.before

\* A signed 32-bit integer: high half in [-2^15, 2^15), low half in [0, 2^16).
WellFormedInt32(a) == IsInt32(a) /\ a[2] >= 0 /\ a[2] < Half

\* The exact sum of the masked values of the clients of S, as integers.
ExactMaskedSum(S) == NumSum([i \in S |-> MaskedValue(i, UpAtRound1 \ {i})], S)

\* C29 (32-bit wrapping accumulator): in every state every masked value and
\* the accumulator are signed 32-bit integers; the accumulator is the exact
\* sum of its terms reduced modulo 2^32 (after round2 the sum of the masked
\* values of U3, after round3 the sum of the fixed-point secrets of U3), and
\* when the exact sum of the fixed-point secrets of U3 is within the signed
\* 32-bit range the final accumulator is that sum.
C29_WrappingAccumulator ==
    /\ \A i \in Positions :
          clients[i].maskedGradient # None =>
              /\ WellFormedInt32(clients[i].maskedGradient[1])
              /\ clients[i].maskedGradient[1] = SetInt32(MaskedValue(i, UpAtRound1 \ {i}))
    /\ server.agg # None => WellFormedInt32(server.agg[1])
    /\ (phase = 3) => server.agg = Some(SetInt32(ExactMaskedSum(U3)))
    /\ (phase = 4) =>
          /\ server.agg = Some(SetInt32(ExactSum(U3)))
          /\ IsInt32(ExactSum(U3)) => server.agg = Some(ExactSum(U3))

C29_Witness ==
    /\ phase = 4
    /\ U2 # U3
    /\ IsInt32(ExactSum(U3))
    /\ ~IsInt32(ExactMaskedSum(U3))
    /\ \E i \in U3 : ~IsInt32(MaskedValue(i, UpAtRound1 \ {i}))
    /\ server.agg = Some(ExactSum(U3))

\* The integer nearest to secret * 10^4, for a secret whose fifth decimal is
\* not 5.
NearestTenThousandth(v) ==
    LET n == v.m + (IF v.d5 > 5 THEN 1 ELSE 0)
    IN  IF v.neg THEN 0 - n ELSE n

\* C30 (fixed-point encoding): the value computeMaskedInputVector encodes a
\* secret as is the integer nearest to the secret times 10^4, for positive
\* and negative secrets.
C30_FixedPointEncoding ==
    (call.op = "secretValueRounded") =>
        call.arg = Num(NearestTenThousandth(clients[call.client].secretValue))

\* The kinds of share of client j in the share maps the clients hold.
KindsHeld(j) ==
    {clients[h].splits[1][j].kind :
        h \in {x \in Positions : clients[x].splits # None /\ j \in DOMAIN clients[x].splits[1]}}

\* The kinds of share of client j the aggregator has collected.
KindsCollected(j) ==
    IF server.keyStocker = None THEN {}
    ELSE {server.keyStocker[1][h][j].kind :
              h \in {x \in DOMAIN server.keyStocker[1] : j \in DOMAIN server.keyStocker[1][x]}}
         \cup {server.seedStocker[1][h][j].kind :
              h \in {x \in DOMAIN server.seedStocker[1] : j \in DOMAIN server.seedStocker[1][x]}}

\* C31 (never both secrets of one client): in every state of every run, over
\* the share maps of the clients and over what the aggregator collected from
\* them, a client has shares of one kind at most: key shares only if it is
\* in U2 \ U3, seed shares only if it is in U3, none if it is in U1 \ U2;
\* the aggregator rebuilds the seed private keys of U2 \ U3 exactly and self
\* mask seeds of clients of U3 only.
C31_NeverBothSecrets ==
    /\ \A j \in Positions :
          /\ Cardinality(KindsHeld(j)) <= 1
          /\ KindsCollected(j) \subseteq KindsHeld(j)
          /\ "keySplit" \in KindsHeld(j) => j \in U2 \ U3
          /\ "seedSplit" \in KindsHeld(j) => j \in U3
          /\ (server.hasClientListU2 /\ j \notin U2) => KindsHeld(j) = {}
    /\ server.keysRetrieved # None => DOMAIN server.keysRetrieved[1] = U2 \ U3
    /\ server.seedRecovered # None => DOMAIN server.seedRecovered[1] \subseteq U3

C31_Witness ==
    /\ pc = "done"
    /\ err = ""
    /\ U1 \ U2 # {}
    /\ server.keysRetrieved # None /\ DOMAIN server.keysRetrieved[1] # {}
    /\ \E j \in U2 \ U3 : KindsCollected(j) = {"keySplit"}
    /\ \E j \in U3 : KindsCollected(j) = {"seedSplit"}

\* The clients whose ciphertexts server.round1() reads, whose masked value
\* server.round2() reads and whose share map server.round3() reads, when
\* called in the present state.
ReadInRound1 == DOMAIN computeU2(server, clients).s.clientList[1]

ReadInRound2 == Range(computeU3(server, clients).s.clientIDsU3[1])

ReadInRound3 == Range(computeU5(server, clients).s.clientIDsU5[1])

\* C32 (no read of missing data): with putDown() between any two calls of
\* the fixed sequence, the first included, every client whose ciphertexts
\* round1 is about to read has made one for each other client read, every
\* client whose masked value round2 is about to read has one, every client
\* whose share map round3 is about to read has one, with an entry for each
\* client of U2, a key share for those of U2 \ U3 and a seed share for those
\* of U3; and no round ends with the exception of a read of undefined.
C32_NoMissingRead ==
    /\ err # "TypeError"
    /\ (pc = "server1") =>
          \A inner \in ReadInRound1 :
              /\ clients[inner].ciphertexts # None
              /\ ReadInRound1 \ {inner} \subseteq DOMAIN clients[inner].ciphertexts[1]
    /\ (pc = "server2") =>
          \A i \in ReadInRound2 : clients[i].maskedGradient # None
    /\ (pc = "server3" \/ (pc = "report" /\ phase = 4)) =>
          \A h \in ReadInRound3 :
              /\ clients[h].splits # None
              /\ \A j \in U2 :
                    /\ j \in DOMAIN clients[h].splits[1]
                    /\ clients[h].splits[1][j].kind =
                          IF j \in Range(server.clientU2NotInU3[1]) THEN "keySplit"
                          ELSE "seedSplit"

C32_Witness ==
    /\ pc = "server3"
    /\ \E i \in Positions : dropAt[i] = BeforeRound0
    /\ U2 \ U3 # {}
    /\ Cardinality(ReadInRound3) >= threshold
    /\ \E h \in ReadInRound3 : \E j \in U2 : clients[h].splits[1][j].kind = "keySplit"

\* The exceptions of the checks a client makes on what the aggregator hands
\* it, TooFewCiphertexts apart.
ChecksThatNeverFire ==
    {"TooFewClients", "KeyCollision", "TooFewSurvivors", "MembershipViolation",
     "CiphertextMisdirected", "DecryptionFailed"}

DownBeforeRound1 == {e \in Positions : dropAt[e] \in 1 .. 2}

\* C34 (clients that drop before the ciphertexts are collected): in every
\* state of every run, a client e put down before server.round1() is in U1
\* and not in the U2 the aggregator computed, nor in any client's
\* clientListU2; the masked value of every client is the sum of its terms
\* over peers other than e, and e has none; no share map has an entry for e,
\* the aggregator has collected no share of e and rebuilt neither its key nor
\* its seed; and the value round3 returns is the sum of the fixed-point
\* secrets of a set without e, divided by the size of that set.
C34_EarlyDropLeavesNoTrace ==
    \A e \in DownBeforeRound1 :
        /\ server.clientList # None => e \in U1
        /\ server.hasClientListU2 => e \notin U2
        /\ \A i \in Positions :
              /\ clients[i].hasClientListU2 => e \notin U2Local(i)
              /\ clients[i].maskedGradient # None =>
                    /\ i # e
                    /\ clients[i].maskedGradient[1]
                          = SetInt32(MaskedValue(i, U2Local(i) \ {e}))
              /\ clients[i].splits # None => e \notin DOMAIN clients[i].splits[1]
        /\ KindsCollected(e) = {}
        /\ server.keysRetrieved # None => e \notin DOMAIN server.keysRetrieved[1]
        /\ server.seedRecovered # None => e \notin DOMAIN server.seedRecovered[1]
        /\ out.masked # None =>
              /\ e \notin U3
              /\ out.masked = Some(Mean(SetInt32(ExactSum(U3)), Cardinality(U3)))

C34_Witness ==
    /\ pc = "done"
    /\ out.masked # None
    /\ \E e \in Positions : dropAt[e] = 1
    /\ \E e \in Positions : dropAt[e] = 2 /\ clients[e].ciphertexts # None

====
